---- MODULE Spec2Model ----
(***************************************************************************)
(* Action-item extraction pipeline of fireflies-ep-service:                *)
(*   src/openai_service.py  _format_participants, _normalize_transcript_   *)
(*                          input, _parse_json_output, generate_action_    *)
(*                          items                                          *)
(*   src/main.py            create_action_items (the request handler that  *)
(*                          runs generate_action_items per request)        *)
(*                                                                         *)
(* A text is a sequence of one-character strings.  The back-quote cannot   *)
(* be written inside a TLA+ string, so the atom Backtick stands for it.    *)
(***************************************************************************)
EXTENDS Naturals, Sequences, FiniteSets, TLC

VARIABLES
    api_key,          \* os.environ[OPENAI_API_KEY]: [set, val]
    pc,               \* per call: position in generate_action_items
    transcript,       \* per call: argument transcript
    participants,     \* per call: argument participants
    max_items,        \* per call: argument max_items
    transcript_text,  \* per call: local transcript_text
    request,          \* per call: the request handed to client.responses.create
    response,         \* per call: local response, what the backend gave back
    output_text,      \* per call: local output_text
    data,             \* per call: local data (result of _parse_json_output)
    outcome,          \* per call: what the call gave its caller
    backend_calls,    \* per call: number of client.responses.create calls
    parse_in,         \* parser harness: [payload, lead, trail, text]
    parse_out,        \* parser harness: result of _parse_json_output
    norm_in,          \* normalizer harness: the turn sequence
    norm_out          \* normalizer harness: [done, text]

vars == <<api_key, pc, transcript, participants, max_items, transcript_text,
          request, response, output_text, data, outcome, backend_calls,
          parse_in, parse_out, norm_in, norm_out>>

callVars == <<api_key, pc, transcript, participants, max_items, transcript_text,
              request, response, output_text, data, outcome, backend_calls>>
parseVars == <<parse_in, parse_out>>
normVars == <<norm_in, norm_out>>

(***************************************************************************)
(* Bounds of the model.                                                    *)
(***************************************************************************)
NumCalls == 2        \* concurrent calls of generate_action_items
MaxItemsBound == 2   \* max_items ranges over 1..MaxItemsBound
MaxReturned == 3     \* the backend returns 0..MaxReturned items
MaxTurns == 2        \* turn sequences given to the normalizer have <= MaxTurns turns

Procs == 1..NumCalls

(***************************************************************************)
(* Characters and the str methods the code uses.                           *)
(***************************************************************************)
Backtick == "BACKTICK"
Quote == "\""
NL == "\n"
\* str.strip()/lstrip() without argument, and JSON whitespace
Whitespace == {" ", "\n", "\t", "\r"}
Digits == {"0", "1", "2", "3", "4", "5", "6", "7", "8", "9"}

Min(a, b) == IF a < b THEN a ELSE b

\* s[i:] of Python with 1-based i: the suffix starting at position i
Suffix(s, i) == IF i > Len(s) THEN <<>> ELSE SubSeq(s, i, Len(s))
\* s[:n]
Prefix(s, n) == IF n <= 0 THEN <<>> ELSE SubSeq(s, 1, Min(n, Len(s)))

RECURSIVE LStripSet(_, _)
LStripSet(s, cs) ==
    IF s # <<>> /\ Head(s) \in cs THEN LStripSet(Tail(s), cs) ELSE s

RECURSIVE RStripSet(_, _)
RStripSet(s, cs) ==
    IF s # <<>> /\ s[Len(s)] \in cs THEN RStripSet(SubSeq(s, 1, Len(s) - 1), cs) ELSE s

\* str.strip(chars)
StripSet(s, cs) == RStripSet(LStripSet(s, cs), cs)
\* str.strip()
Strip(s) == StripSet(s, Whitespace)
\* str.lstrip()
LStrip(s) == LStripSet(s, Whitespace)

\* str.lower() of one character (the letters that occur in the model's texts)
LowerChar(c) ==
    CASE c = "J" -> "j"
      [] c = "S" -> "s"
      [] c = "O" -> "o"
      [] c = "N" -> "n"
      [] OTHER -> c
Lower(s) == [i \in 1..Len(s) |-> LowerChar(s[i])]

\* str.startswith(p)
StartsWith(s, p) == Len(s) >= Len(p) /\ SubSeq(s, 1, Len(p)) = p

\* str.find(c) / str.rfind(c), 1-based, 0 when absent (Python: 0-based, -1)
Find(s, c) ==
    IF \E i \in 1..Len(s) : s[i] = c
    THEN CHOOSE i \in 1..Len(s) : s[i] = c /\ \A j \in 1..(i - 1) : s[j] # c
    ELSE 0
RFind(s, c) ==
    IF \E i \in 1..Len(s) : s[i] = c
    THEN CHOOSE i \in 1..Len(s) : s[i] = c /\ \A j \in (i + 1)..Len(s) : s[j] # c
    ELSE 0

\* sep.join(parts)
RECURSIVE Join(_, _)
Join(parts, sep) ==
    IF parts = <<>> THEN <<>>
    ELSE IF Len(parts) = 1 THEN parts[1]
    ELSE parts[1] \o sep \o Join(Tail(parts), sep)

(***************************************************************************)
(* json.loads: values are [t, v] with t the JSON type; an object keeps its *)
(* members as parsed, <<[k, val], ...>>.  Integers, strings without escape *)
(* sequences, arrays, objects and the three literals are covered: the      *)
(* model's texts hold no sign, fraction, exponent or backslash.            *)
(***************************************************************************)
NoVal == [t |-> "none", v |-> <<>>]
JFail == [ok |-> FALSE, val |-> NoVal, pos |-> 0]
JOk(val, pos) == [ok |-> TRUE, val |-> val, pos |-> pos]

RECURSIVE SkipWs(_, _)
SkipWs(s, i) ==
    IF i <= Len(s) /\ s[i] \in Whitespace THEN SkipWs(s, i + 1) ELSE i

At(s, i) == IF i >= 1 /\ i <= Len(s) THEN s[i] ELSE "EOF"

\* the text after an opening quote: up to the closing quote; a control
\* character inside a string is an error (json.loads is strict)
RECURSIVE ScanString(_, _, _)
ScanString(s, i, acc) ==
    IF i > Len(s) THEN JFail
    ELSE IF s[i] = Quote THEN JOk([t |-> "string", v |-> acc], i + 1)
    ELSE IF s[i] \in {"\n", "\t", "\r"} THEN JFail
    ELSE ScanString(s, i + 1, Append(acc, s[i]))

RECURSIVE ScanDigits(_, _)
ScanDigits(s, i) ==
    IF i <= Len(s) /\ s[i] \in Digits THEN ScanDigits(s, i + 1) ELSE i

\* an integer: "0", or a non-zero digit followed by digits
ScanNumber(s, i) ==
    LET j == IF s[i] = "0" THEN i + 1 ELSE ScanDigits(s, i)
    IN  JOk([t |-> "number", v |-> SubSeq(s, i, j - 1)], j)

ScanLiteral(s, i, word, t) ==
    IF SubSeq(s, i, Min(Len(s), i + Len(word) - 1)) = word
    THEN JOk([t |-> t, v |-> <<>>], i + Len(word))
    ELSE JFail

RECURSIVE ParseValue(_, _)
RECURSIVE ParseElements(_, _, _)
RECURSIVE ParseMembers(_, _, _)

\* the elements of an array, s[i] being the first character of an element
ParseElements(s, i, acc) ==
    LET e == ParseValue(s, i)
    IN  IF ~e.ok THEN JFail
        ELSE LET j == SkipWs(s, e.pos)
                 got == Append(acc, e.val)
             IN  IF At(s, j) = "," THEN ParseElements(s, SkipWs(s, j + 1), got)
                 ELSE IF At(s, j) = "]" THEN JOk([t |-> "array", v |-> got], j + 1)
                 ELSE JFail

\* the members of an object, s[i] being where a key's opening quote must be
ParseMembers(s, i, acc) ==
    IF At(s, i) # Quote THEN JFail
    ELSE LET k == ScanString(s, i + 1, <<>>)
         IN  IF ~k.ok THEN JFail
             ELSE LET c == SkipWs(s, k.pos)
                  IN  IF At(s, c) # ":" THEN JFail
                      ELSE LET e == ParseValue(s, SkipWs(s, c + 1))
                           IN  IF ~e.ok THEN JFail
                               ELSE LET j == SkipWs(s, e.pos)
                                        got == Append(acc, [k |-> k.val.v, val |-> e.val])
                                    IN  IF At(s, j) = ","
                                        THEN ParseMembers(s, SkipWs(s, j + 1), got)
                                        ELSE IF At(s, j) = "}"
                                        THEN JOk([t |-> "object", v |-> got], j + 1)
                                        ELSE JFail

ParseValue(s, i) ==
    LET c == At(s, i)
    IN  IF c = "{"
        THEN LET j == SkipWs(s, i + 1)
             IN  IF At(s, j) = "}" THEN JOk([t |-> "object", v |-> <<>>], j + 1)
                 ELSE ParseMembers(s, j, <<>>)
        ELSE IF c = "["
        THEN LET j == SkipWs(s, i + 1)
             IN  IF At(s, j) = "]" THEN JOk([t |-> "array", v |-> <<>>], j + 1)
                 ELSE ParseElements(s, j, <<>>)
        ELSE IF c = Quote THEN ScanString(s, i + 1, <<>>)
        ELSE IF c \in Digits THEN ScanNumber(s, i)
        ELSE IF c = "n" THEN ScanLiteral(s, i, <<"n", "u", "l", "l">>, "null")
        ELSE IF c = "t" THEN ScanLiteral(s, i, <<"t", "r", "u", "e">>, "true")
        ELSE IF c = "f" THEN ScanLiteral(s, i, <<"f", "a", "l", "s", "e">>, "false")
        ELSE JFail

\* json.loads(s): [ok, val]; ok = FALSE is json.JSONDecodeError
JsonLoads(s) ==
    LET r == ParseValue(s, SkipWs(s, 1))
    IN  IF r.ok /\ SkipWs(s, r.pos) = Len(s) + 1
        THEN [ok |-> TRUE, val |-> r.val]
        ELSE [ok |-> FALSE, val |-> NoVal]

(***************************************************************************)
(* _parse_json_output (src/openai_service.py:118-136).                     *)
(***************************************************************************)
Fence == <<Backtick, Backtick, Backtick>>
JsonTag == <<"j", "s", "o", "n">>

\* StripFence matching the tag without lower()
StripFenceCaseSensitive(raw) ==
    IF StartsWith(raw, Fence)
    THEN LET stripped == StripSet(raw, {Backtick})
         IN  IF StartsWith(stripped, JsonTag)
             THEN LStrip(Suffix(stripped, 5))
             ELSE stripped
    ELSE raw

\* lines 120-123: the text the parse is tried on
StripFence(raw) ==
    IF StartsWith(raw, Fence)
    THEN LET stripped == StripSet(raw, {Backtick})
         IN  IF StartsWith(Lower(stripped), JsonTag)
             THEN LStrip(Suffix(stripped, 5))
             ELSE stripped
    ELSE raw

ParseFail == [ok |-> FALSE, val |-> NoVal, tier |-> "none"]

\* BraceExtract with find("}") in place of rfind("}")
BraceExtractFirstClose(text) ==
    LET start == Find(text, "{")
        end == Find(text, "}")
    IN  IF start # 0 /\ end # 0 /\ end > start
        THEN LET r == JsonLoads(SubSeq(text, start, end))
             IN  IF r.ok THEN [ok |-> TRUE, val |-> r.val, tier |-> "recovery"]
                 ELSE ParseFail
        ELSE ParseFail

\* lines 129-135: json.loads of the text from the first "{" to the last "}"
BraceExtract(text) ==
    LET start == Find(text, "{")
        end == RFind(text, "}")
    IN  IF start # 0 /\ end # 0 /\ end > start
        THEN LET r == JsonLoads(SubSeq(text, start, end))
             IN  IF r.ok THEN [ok |-> TRUE, val |-> r.val, tier |-> "recovery"]
                 ELSE ParseFail
        ELSE ParseFail

\* ParseStripped giving an empty object where both parses fail
ParseStrippedLenient(text) ==
    LET strict == JsonLoads(text)
    IN  IF strict.ok THEN [ok |-> TRUE, val |-> strict.val, tier |-> "strict"]
        ELSE IF BraceExtract(text).ok THEN BraceExtract(text)
        ELSE [ok |-> TRUE, val |-> [t |-> "object", v |-> <<>>], tier |-> "recovery"]

\* lines 125-136: the strict parse, then the fallback; ok = FALSE is
\* ValueError("OpenAI response was not valid JSON.")
ParseStripped(text) ==
    LET strict == JsonLoads(text)
    IN  IF strict.ok THEN [ok |-> TRUE, val |-> strict.val, tier |-> "strict"]
        ELSE BraceExtract(text)

ParseJsonOutput(raw) == ParseStripped(StripFence(raw))

(***************************************************************************)
(* _normalize_transcript_input (src/openai_service.py:96-115) and          *)
(* _format_participants (90-93).  A transcript is [kind, s, turns]: a str  *)
(* or a list of turns; a turn is [form, speaker, text] with form "dict" or *)
(* "attr" and each field [has, s] (has = FALSE: the key or attribute is    *)
(* missing, or None).                                                      *)
(***************************************************************************)
None == [has |-> FALSE, s |-> <<>>]
Some(s) == [has |-> TRUE, s |-> s]
SpeakerDefault == <<"S", "p", "e", "a", "k", "e", "r">>

\* Python's  value or default  on an optional str
OrElse(value, default) == IF value.has /\ value.s # <<>> THEN value.s ELSE default

\* lines 104-109: turn.get(name) of a dict, getattr(turn, name, None) otherwise
TurnField(turn, name) ==
    IF turn.form = "dict"
    THEN (IF name = "speaker" THEN turn.speaker ELSE turn.text)
    ELSE (IF name = "speaker" THEN turn.speaker ELSE turn.text)

\* line 111
TurnSpeaker(turn) ==
    LET speaker == Strip(OrElse(TurnField(turn, "speaker"), SpeakerDefault))
    IN  IF speaker # <<>> THEN speaker ELSE SpeakerDefault

\* TurnText without strip()
TurnTextUnstripped(turn) == OrElse(TurnField(turn, "text"), <<>>)

\* line 112
TurnText(turn) == Strip(OrElse(TurnField(turn, "text"), <<>>))

\* line 114
TurnLine(turn) == TurnSpeaker(turn) \o <<":", " ">> \o TurnText(turn)

\* CollectLines without the  if text:  guard
RECURSIVE CollectLinesKeepBlank(_, _)
CollectLinesKeepBlank(turns, lines) ==
    IF turns = <<>> THEN lines
    ELSE CollectLinesKeepBlank(Tail(turns), Append(lines, TurnLine(Head(turns))))

\* lines 102-114: the loop over the turns
RECURSIVE CollectLines(_, _)
CollectLines(turns, lines) ==
    IF turns = <<>> THEN lines
    ELSE CollectLines(Tail(turns),
                      IF TurnText(Head(turns)) # <<>>
                      THEN Append(lines, TurnLine(Head(turns)))
                      ELSE lines)

NormalizeTranscriptInput(t) ==
    IF t.kind = "str" THEN t.s
    ELSE Strip(Join(CollectLines(t.turns, <<>>), <<NL>>))

NoneProvided == <<"N", "o", "n", "e", " ", "p", "r", "o", "v", "i", "d", "e", "d", ".">>
FormatParticipants(ps) ==
    IF ps = <<>> THEN NoneProvided
    ELSE Join([i \in 1..Len(ps) |-> <<"-", " ">> \o ps[i]], <<NL>>)

(***************************************************************************)
(* generate_action_items (src/openai_service.py:138-189).                  *)
(***************************************************************************)
MsgMissingKey == "Missing OPENAI_API_KEY. Set it to your OpenAI API key."
MsgEmptyTranscript == "Transcript was empty after normalization."
MsgEmptyResponse == "OpenAI response was empty."
MsgNotJson == "OpenAI response was not valid JSON."
MsgNoItemsList == "OpenAI response JSON did not contain items list."
MsgNoGet == "object has no attribute 'get'"

NoOutcome == [kind |-> "none", msg |-> "", items |-> <<>>]
Raise(kind, msg) == [kind |-> kind, msg |-> msg, items |-> <<>>]
Returned(items) == [kind |-> "return", msg |-> "", items |-> items]

ItemsKey == <<"i", "t", "e", "m", "s">>
EmptyList == [t |-> "array", v |-> <<>>]

\* dict.get(key, default): a repeated key keeps its last value
DictGet(obj, key, default) ==
    LET hits == {i \in 1..Len(obj.v) : obj.v[i].k = key}
    IN  IF hits = {} THEN default
        ELSE obj.v[CHOOSE i \in hits : \A j \in hits : j <= i].val

\* Cap keeping the last n items
CapKeepsLast(items, n) ==
    IF Len(items) > n THEN SubSeq(items, Len(items) - n + 1, Len(items)) ELSE items

\* lines 185-187: the defensive cap (max_items >= 1)
Cap(items, n) == IF Len(items) > n THEN Prefix(items, n) ELSE items

\* lines 181-189, on the parsed data: the exception or the returned list
Shape(parsed, n) ==
    IF parsed.t # "object" THEN Raise("AttributeError", MsgNoGet)
    ELSE LET items == DictGet(parsed, ItemsKey, EmptyList)
         IN  IF items.t # "array" THEN Raise("ValueError", MsgNoItemsList)
             ELSE Returned(Cap(items.v, n))

\* lines 176-189: from response.output_text to the call's outcome
Extract(text, n) ==
    LET out == Strip(text)
    IN  IF out = <<>>
        THEN [output_text |-> out, data |-> NoVal,
              outcome |-> Raise("ValueError", MsgEmptyResponse)]
        ELSE LET parsed == ParseJsonOutput(out)
             IN  IF ~parsed.ok
                 THEN [output_text |-> out, data |-> NoVal,
                       outcome |-> Raise("ValueError", MsgNotJson)]
                 ELSE [output_text |-> out, data |-> parsed.val,
                       outcome |-> Shape(parsed.val, n)]

\* line 144: not api_key
Missing(key) == ~key.set \/ key.val = <<>>

NoTranscript == [kind |-> "none", s |-> <<>>, turns |-> <<>>]
NoRoster == [has |-> FALSE, names |-> <<>>]
NoRequest == [sent |-> FALSE, system |-> 0, roster |-> <<>>, cap |-> 0, body |-> <<>>]
NoResponse == [got |-> FALSE, text |-> <<>>]

\* lines 149, 156-164: the two prompts, by what they embed
BuildRequest(roster, n, text) ==
    [sent |-> TRUE, system |-> n,
     roster |-> FormatParticipants(IF roster.has THEN roster.names ELSE <<>>),
     cap |-> n, body |-> text]

\* main.py:55-59 (or any caller): generate_action_items is entered
Call(p, T, R, N) ==
    /\ pc[p] = "idle"
    /\ \E t \in T, r \in R, n \in N :
          /\ transcript' = [transcript EXCEPT ![p] = t]
          /\ participants' = [participants EXCEPT ![p] = r]
          /\ max_items' = [max_items EXCEPT ![p] = n]
    /\ pc' = [pc EXCEPT ![p] = "check_key"]
    /\ UNCHANGED <<api_key, transcript_text, request, response, output_text, data,
                   outcome, backend_calls, parseVars, normVars>>

\* CheckKey with the transcript checked before the credential
CheckKeyAfterNormalize(p) ==
    /\ pc[p] = "check_key"
    /\ IF NormalizeTranscriptInput(transcript[p]) = <<>>
       THEN /\ outcome' = [outcome EXCEPT ![p] = Raise("ValueError", MsgEmptyTranscript)]
            /\ pc' = [pc EXCEPT ![p] = "done"]
       ELSE IF Missing(api_key)
       THEN /\ outcome' = [outcome EXCEPT ![p] = Raise("RuntimeError", MsgMissingKey)]
            /\ pc' = [pc EXCEPT ![p] = "done"]
       ELSE /\ pc' = [pc EXCEPT ![p] = "normalize"]
            /\ UNCHANGED outcome
    /\ UNCHANGED <<api_key, transcript, participants, max_items, transcript_text,
                   request, response, output_text, data, backend_calls,
                   parseVars, normVars>>

\* lines 143-149
CheckKey(p) ==
    /\ pc[p] = "check_key"
    /\ IF Missing(api_key)
       THEN /\ outcome' = [outcome EXCEPT ![p] = Raise("RuntimeError", MsgMissingKey)]
            /\ pc' = [pc EXCEPT ![p] = "done"]
       ELSE /\ pc' = [pc EXCEPT ![p] = "normalize"]
            /\ UNCHANGED outcome
    /\ UNCHANGED <<api_key, transcript, participants, max_items, transcript_text,
                   request, response, output_text, data, backend_calls,
                   parseVars, normVars>>

\* lines 151-164
Normalize(p) ==
    /\ pc[p] = "normalize"
    /\ LET text == NormalizeTranscriptInput(transcript[p])
       IN  /\ transcript_text' = [transcript_text EXCEPT ![p] = text]
           /\ IF text = <<>>
              THEN /\ outcome' = [outcome EXCEPT
                                     ![p] = Raise("ValueError", MsgEmptyTranscript)]
                   /\ pc' = [pc EXCEPT ![p] = "done"]
                   /\ UNCHANGED request
              ELSE /\ request' = [request EXCEPT
                                     ![p] = BuildRequest(participants[p], max_items[p], text)]
                   /\ pc' = [pc EXCEPT ![p] = "invoke"]
                   /\ UNCHANGED outcome
    /\ UNCHANGED <<api_key, transcript, participants, max_items, response,
                   output_text, data, backend_calls, parseVars, normVars>>

\* line 166: client.responses.create is called and blocks
Invoke(p) ==
    /\ pc[p] = "invoke"
    /\ backend_calls' = [backend_calls EXCEPT ![p] = @ + 1]
    /\ pc' = [pc EXCEPT ![p] = "await"]
    /\ UNCHANGED <<api_key, transcript, participants, max_items, transcript_text,
                   request, response, output_text, data, outcome, parseVars, normVars>>

\* Respond keeping the answer in one place shared by the calls
RespondShared(p, Texts) ==
    /\ pc[p] = "await"
    /\ \E text \in Texts : response' = [q \in Procs |-> [got |-> TRUE, text |-> text]]
    /\ pc' = [pc EXCEPT ![p] = "extract"]
    /\ UNCHANGED <<api_key, transcript, participants, max_items, transcript_text,
                   request, output_text, data, outcome, backend_calls,
                   parseVars, normVars>>

\* lines 166-174: the backend answers with some text
Respond(p, Texts) ==
    /\ pc[p] = "await"
    /\ \E text \in Texts : response' = [response EXCEPT ![p] = [got |-> TRUE, text |-> text]]
    /\ pc' = [pc EXCEPT ![p] = "extract"]
    /\ UNCHANGED <<api_key, transcript, participants, max_items, transcript_text,
                   request, output_text, data, outcome, backend_calls,
                   parseVars, normVars>>

\* lines 166-174: client.responses.create raises; nothing catches it
BackendRaises(p) ==
    /\ pc[p] = "await"
    /\ outcome' = [outcome EXCEPT ![p] = Raise("BackendError", "")]
    /\ pc' = [pc EXCEPT ![p] = "done"]
    /\ UNCHANGED <<api_key, transcript, participants, max_items, transcript_text,
                   request, response, output_text, data, backend_calls,
                   parseVars, normVars>>

\* ExtractStep asking the backend again after a ValueError
ExtractStepRetry(p) ==
    /\ pc[p] = "extract"
    /\ LET r == Extract(response[p].text, max_items[p])
       IN  /\ output_text' = [output_text EXCEPT ![p] = r.output_text]
           /\ data' = [data EXCEPT ![p] = r.data]
           /\ IF r.outcome.kind = "ValueError"
              THEN /\ pc' = [pc EXCEPT ![p] = "invoke"]
                   /\ UNCHANGED outcome
              ELSE /\ pc' = [pc EXCEPT ![p] = "done"]
                   /\ outcome' = [outcome EXCEPT ![p] = r.outcome]
    /\ UNCHANGED <<api_key, transcript, participants, max_items, transcript_text,
                   request, response, backend_calls, parseVars, normVars>>

\* lines 176-189
ExtractStep(p) ==
    /\ pc[p] = "extract"
    /\ LET r == Extract(response[p].text, max_items[p])
       IN  /\ output_text' = [output_text EXCEPT ![p] = r.output_text]
           /\ data' = [data EXCEPT ![p] = r.data]
           /\ outcome' = [outcome EXCEPT ![p] = r.outcome]
    /\ pc' = [pc EXCEPT ![p] = "done"]
    /\ UNCHANGED <<api_key, transcript, participants, max_items, transcript_text,
                   request, response, backend_calls, parseVars, normVars>>

\* the caller has the outcome (main.py:60-65); the call's frame is gone
Return(p) ==
    /\ pc[p] = "done"
    /\ pc' = [pc EXCEPT ![p] = "idle"]
    /\ transcript' = [transcript EXCEPT ![p] = NoTranscript]
    /\ participants' = [participants EXCEPT ![p] = NoRoster]
    /\ max_items' = [max_items EXCEPT ![p] = 0]
    /\ transcript_text' = [transcript_text EXCEPT ![p] = <<>>]
    /\ request' = [request EXCEPT ![p] = NoRequest]
    /\ response' = [response EXCEPT ![p] = NoResponse]
    /\ output_text' = [output_text EXCEPT ![p] = <<>>]
    /\ data' = [data EXCEPT ![p] = NoVal]
    /\ outcome' = [outcome EXCEPT ![p] = NoOutcome]
    /\ backend_calls' = [backend_calls EXCEPT ![p] = 0]
    /\ UNCHANGED <<api_key, parseVars, normVars>>

(***************************************************************************)
(* The inputs: what callers pass and what the backend may answer.          *)
(***************************************************************************)
SeqsUpTo(S, n) == UNION {[1..k -> S] : k \in 0..n}

Str(cs) == <<Quote>> \o cs \o <<Quote>>
ObjText(key, value) == <<"{">> \o Str(key) \o <<":">> \o value \o <<"}">>
ArrText(elems) == <<"[">> \o Join(elems, <<",">>) \o <<"]">>
DigitChar(i) == <<"1", "2", "3", "4", "5", "6", "7", "8", "9">>[i]
\* {"items":[1,2,...,k]}
ItemsPayload(k) == ObjText(ItemsKey, ArrText([i \in 1..k |-> <<DigitChar(i)>>]))
\* {"items":[{"title":"a"},{"title":"b"}]}
TitleKey == <<"t", "i", "t", "l", "e">>
TitledPayload ==
    ObjText(ItemsKey, ArrText(<<ObjText(TitleKey, Str(<<"a">>)),
                                ObjText(TitleKey, Str(<<"b">>))>>))

Sure == <<"S", "u", "r", "e", ":", " ">>
Sorry == <<"S", "o", "r", "r", "y", ".">>

Keys == {[set |-> FALSE, val |-> <<>>],
         [set |-> TRUE, val |-> <<>>],
         [set |-> TRUE, val |-> <<"s", "k">>]}

StrT(s) == [kind |-> "str", s |-> s, turns |-> <<>>]
TurnsT(ts) == [kind |-> "turns", s |-> <<>>, turns |-> ts]
Turn(form, speaker, text) == [form |-> form, speaker |-> speaker, text |-> text]

Mark == <<"M", "a", "r", "k">>
Hi == <<"h", "i">>
CallTurns ==
    {Turn("dict", Some(Mark), Some(<<" ", "\n">>)),
     Turn("attr", Some(Mark), None),
     Turn("dict", Some(Mark), Some(Hi)),
     Turn("attr", None, Some(<<" ">> \o Hi))}
Transcripts ==
    {StrT(<<>>), StrT(<<" ">>), StrT(Hi)}
        \cup {TurnsT(ts) : ts \in SeqsUpTo(CallTurns, MaxTurns)}
Rosters == {NoRoster, [has |-> TRUE, names |-> <<Mark>>]}

Responses ==
    {ItemsPayload(k) : k \in 0..MaxReturned}
        \cup {TitledPayload,
              <<" ">> \o ItemsPayload(1) \o <<"\n">>,
              Fence \o JsonTag \o <<"\n">> \o ItemsPayload(2) \o <<"\n">> \o Fence,
              Sure \o ItemsPayload(2),
              \* no text
              <<>>, <<" ", "\n">>,
              \* not JSON
              Sorry, Fence, <<"{", "o", "o", "p", "s", "}">>,
              <<"{">> \o Str(ItemsKey) \o <<":", "[", "1", ",">>,
              \* JSON without a list of items
              <<"{", "}">>,
              ObjText(TitleKey, ArrText(<< <<"1">> >>)),
              ObjText(ItemsKey, Str(<<"x">>)),
              ObjText(ItemsKey, <<"n", "u", "l", "l">>),
              ObjText(ItemsKey, <<"{", "}">>),
              ArrText(<< <<"1">> >>),
              <<"1">>,
              Str(ItemsKey),
              <<"n", "u", "l", "l">>}

\* the few inputs of the concurrent calls
ConcTranscripts == {StrT(<<>>), TurnsT(<<Turn("dict", Some(Mark), Some(Hi))>>)}
ConcResponses == {ItemsPayload(2), Sorry, ArrText(<< <<"1">> >>)}

(***************************************************************************)
(* The calls, one at a time (Spec) and concurrent (SpecConc).              *)
(***************************************************************************)
HarnessIdle ==
    /\ parse_in = [kind |-> "none", payload |-> <<>>, tag |-> <<>>, lead |-> <<>>,
                   trail |-> <<>>, text |-> <<>>]
    /\ parse_out = [done |-> FALSE, res |-> ParseFail]
    /\ norm_in = <<>>
    /\ norm_out = [done |-> FALSE, text |-> <<>>]

CallsIdle ==
    /\ pc = [p \in Procs |-> "idle"]
    /\ transcript = [p \in Procs |-> NoTranscript]
    /\ participants = [p \in Procs |-> NoRoster]
    /\ max_items = [p \in Procs |-> 0]
    /\ transcript_text = [p \in Procs |-> <<>>]
    /\ request = [p \in Procs |-> NoRequest]
    /\ response = [p \in Procs |-> NoResponse]
    /\ output_text = [p \in Procs |-> <<>>]
    /\ data = [p \in Procs |-> NoVal]
    /\ outcome = [p \in Procs |-> NoOutcome]
    /\ backend_calls = [p \in Procs |-> 0]

Init ==
    /\ api_key \in Keys
    /\ CallsIdle
    /\ HarnessIdle

NoOtherCall(p) == \A q \in Procs \ {p} : pc[q] = "idle"

Next ==
    \E p \in Procs :
        \/ (NoOtherCall(p) /\ Call(p, Transcripts, Rosters, 1..MaxItemsBound))
        \/ CheckKey(p)
        \/ Normalize(p)
        \/ Invoke(p)
        \/ Respond(p, Responses)
        \/ BackendRaises(p)
        \/ ExtractStep(p)
        \/ Return(p)

Spec == Init /\ [][Next]_vars

NextConc ==
    \E p \in Procs :
        \/ Call(p, ConcTranscripts, {NoRoster}, {1})
        \/ CheckKey(p)
        \/ Normalize(p)
        \/ Invoke(p)
        \/ Respond(p, ConcResponses)
        \/ BackendRaises(p)
        \/ ExtractStep(p)
        \/ Return(p)

SpecConc == Init /\ [][NextConc]_vars

(***************************************************************************)
(* _parse_json_output on its own (SpecParse): a payload, alone, inside a   *)
(* code fence or with prose around it.                                     *)
(***************************************************************************)
AKey == <<"a">>
Payloads ==
    {ItemsPayload(k) : k \in 0..MaxReturned}
        \cup {<<"{", "}">>,
              TitledPayload,
              ObjText(AKey, Str(<<"}">>)),
              ArrText(<< <<"1">> >>),
              ArrText(<<ObjText(AKey, <<"1">>)>>),
              <<"1">>,
              Str(<<"x">>),
              <<"n", "u", "l", "l">>}

Tags == {<<>>, JsonTag, <<"J", "S", "O", "N">>, <<"J", "s", "o", "n">>,
         <<"j", "s">>, <<"j", "s", "o", "n", "c">>}
FenceGaps == {<<>>, <<"\n">>, <<" ">>}
ProseLeads == {<<>>, Sure, <<"o", "k", "\n">>, <<"a", " ", "{", "b", "}", " ">>,
               <<"[">>, <<Quote>>, Fence \o <<"x", " ">>, Fence \o JsonTag \o <<" ">>}
ProseTrails == {<<>>, <<" ", "d", "o", "n", "e">>, <<" ", "}", " ">>, <<"]">>,
                <<Quote>>, <<"\n", "o", "k">>}

FencedInputs ==
    {[kind |-> "fence", payload |-> P, tag |-> tag, lead |-> g1, trail |-> g2,
      text |-> Fence \o tag \o g1 \o P \o g2 \o Fence] :
        P \in Payloads, tag \in Tags, g1 \in FenceGaps, g2 \in {<<>>, <<"\n">>}}
ProseInputs ==
    {[kind |-> IF lead = <<>> /\ trail = <<>> THEN "alone" ELSE "prose",
      payload |-> P, tag |-> <<>>, lead |-> lead, trail |-> trail,
      text |-> lead \o P \o trail] :
        P \in Payloads, lead \in ProseLeads, trail \in ProseTrails}

InitParse ==
    /\ api_key = [set |-> FALSE, val |-> <<>>]
    /\ CallsIdle
    /\ parse_in \in FencedInputs \cup ProseInputs
    /\ parse_out = [done |-> FALSE, res |-> ParseFail]
    /\ norm_in = <<>>
    /\ norm_out = [done |-> FALSE, text |-> <<>>]

\* line 180: data = _parse_json_output(output_text)
ParseStep ==
    /\ ~parse_out.done
    /\ parse_out' = [done |-> TRUE, res |-> ParseJsonOutput(parse_in.text)]
    /\ UNCHANGED <<callVars, parse_in, normVars>>

NextParse == ParseStep

SpecParse == InitParse /\ [][NextParse]_vars

(***************************************************************************)
(* _normalize_transcript_input on its own (SpecNorm), on turn sequences.   *)
(***************************************************************************)
NormSpeakers == {None, Some(<<" ">>), Some(<<" ", "A">>), Some(<<"A", "\n", "B">>)}
NormTexts == {None, Some(<<>>), Some(<<" ", "\n">>), Some(<<"h", "i", " ">>),
              Some(<<"a", "\n", "b">>)}
NormTurns == {Turn(f, sp, tx) : f \in {"dict", "attr"}, sp \in NormSpeakers,
                                tx \in NormTexts}

InitNorm ==
    /\ api_key = [set |-> FALSE, val |-> <<>>]
    /\ CallsIdle
    /\ parse_in = [kind |-> "none", payload |-> <<>>, tag |-> <<>>, lead |-> <<>>,
                   trail |-> <<>>, text |-> <<>>]
    /\ parse_out = [done |-> FALSE, res |-> ParseFail]
    /\ norm_in \in SeqsUpTo(NormTurns, MaxTurns)
    /\ norm_out = [done |-> FALSE, text |-> <<>>]

\* line 151: transcript_text = _normalize_transcript_input(transcript)
NormStep ==
    /\ ~norm_out.done
    /\ norm_out' = [done |-> TRUE, text |-> NormalizeTranscriptInput(TurnsT(norm_in))]
    /\ UNCHANGED <<callVars, parseVars, norm_in>>

NextNorm == NormStep

SpecNorm == InitNorm /\ [][NextNorm]_vars

(***************************************************************************)
(* The error taxonomy of the design, as outcomes of the code.              *)
(***************************************************************************)
ConfigurationError(o) == o.kind = "RuntimeError" /\ o.msg = MsgMissingKey
EmptyInputError(o) == o.kind = "ValueError" /\ o.msg = MsgEmptyTranscript
EmptyResponseError(o) == o.kind = "ValueError" /\ o.msg = MsgEmptyResponse
MalformedResponseError(o) == o.kind = "ValueError" /\ o.msg = MsgNotJson
InvalidShapeError(o) == o.kind = "ValueError" /\ o.msg = MsgNoItemsList

Done(p) == pc[p] = "done"
FirstN(L, m) == [i \in 1..m |-> L[i]]

\* the items field of a parsed payload, NoVal when there is none
ItemsField(d) == IF d.t = "object" THEN DictGet(d, ItemsKey, NoVal) ELSE NoVal

(***************************************************************************)
(* C1: for every positive max_items = N and every response whose parsed    *)
(* payload has an items sequence of length k, the call returns exactly the *)
(* first min(k, N) items in the backend's order; the length never exceeds  *)
(* N.                                                                      *)
(***************************************************************************)
C1_FirstItemsKept ==
    \A p \in Procs :
        (Done(p) /\ ItemsField(data[p]).t = "array") =>
            LET L == ItemsField(data[p]).v
            IN  /\ outcome[p].kind = "return"
                /\ Len(outcome[p].items) = Min(Len(L), max_items[p])
                /\ Len(outcome[p].items) <= max_items[p]
                /\ outcome[p].items = FirstN(L, Min(Len(L), max_items[p]))

C1_Witness ==
    \E p \in Procs :
        /\ Done(p)
        /\ ItemsField(data[p]).t = "array"
        /\ max_items[p] >= 2
        /\ Len(ItemsField(data[p]).v) > max_items[p]
        /\ Len(outcome[p].items) = max_items[p]

(***************************************************************************)
(* C2: with a credential configured, a call whose transcript is empty      *)
(* input (the empty string, no turns, or only turns with blank text, in    *)
(* mapping or attribute form) ends in EmptyInputError and never invokes    *)
(* the backend.                                                            *)
(***************************************************************************)
BlankField(f) == ~f.has \/ \A j \in 1..Len(f.s) : f.s[j] \in Whitespace
IsEmptyInput(t) ==
    \/ t.kind = "str" /\ t.s = <<>>
    \/ t.kind = "turns" /\ \A i \in 1..Len(t.turns) : BlankField(t.turns[i].text)

\* C2: an empty transcript, with a credential, never reaches the backend and
\* ends in EmptyInputError
C2_EmptyInputNoBackend ==
    ~Missing(api_key) =>
        \A p \in Procs :
            IsEmptyInput(transcript[p]) =>
                /\ backend_calls[p] = 0
                /\ ~request[p].sent
                /\ pc[p] \in {"check_key", "normalize", "done"}
                /\ Done(p) => EmptyInputError(outcome[p])

C2_Witness ==
    /\ ~Missing(api_key)
    /\ \E p \in Procs :
          /\ Done(p)
          /\ transcript[p].kind = "turns"
          /\ Len(transcript[p].turns) >= 2
          /\ transcript[p].turns[1].form # transcript[p].turns[2].form
          /\ IsEmptyInput(transcript[p])
          /\ EmptyInputError(outcome[p])
          /\ backend_calls[p] = 0

(***************************************************************************)
(* C3: with the credential missing, every call (whatever the transcript,   *)
(* the roster and max_items) ends in ConfigurationError, before any other  *)
(* failure is raised, and never invokes the backend.                       *)
(***************************************************************************)
C3_MissingKeyFirst ==
    Missing(api_key) =>
        \A p \in Procs :
            /\ backend_calls[p] = 0
            /\ ~request[p].sent
            /\ pc[p] \in {"idle", "check_key", "done"}
            /\ Done(p) => ConfigurationError(outcome[p])

C3_Witness ==
    /\ Missing(api_key)
    /\ \E p \in Procs :
          /\ Done(p)
          /\ IsEmptyInput(transcript[p])
          /\ participants[p].has
          /\ ConfigurationError(outcome[p])

(***************************************************************************)
(* C6: whenever the response parses as structured data but the payload has *)
(* no well-formed items collection (no items field, an items field that is *)
(* not a sequence, or a payload that is not an object), the call ends in   *)
(* InvalidShapeError and returns no result.                                *)
(***************************************************************************)
ParsedOk(p) == Done(p) /\ response[p].got /\ data[p] # NoVal

\* C6: a parsed payload without a list of items ends in InvalidShapeError
C6_InvalidShapeReported ==
    \A p \in Procs :
        (ParsedOk(p) /\ ItemsField(data[p]).t # "array") =>
            InvalidShapeError(outcome[p])

(***************************************************************************)
(* C7: whenever the non-empty response text parses neither strictly nor    *)
(* from its first "{" to its last "}" (in particular prose without any     *)
(* brace), the call ends in MalformedResponseError and returns no result.  *)
(***************************************************************************)
BraceSpanParses(u) ==
    \E i \in 1..Len(u), j \in 1..Len(u) :
        /\ i < j
        /\ u[i] = "{" /\ \A k \in 1..(i - 1) : u[k] # "{"
        /\ u[j] = "}" /\ \A k \in (j + 1)..Len(u) : u[k] # "}"
        /\ JsonLoads(SubSeq(u, i, j)).ok
Unparseable(text) ==
    LET u == StripFence(Strip(text))
    IN  /\ Strip(text) # <<>>
        /\ ~JsonLoads(u).ok
        /\ ~BraceSpanParses(u)

\* C7: a non-empty response that neither parse accepts ends in
\* MalformedResponseError, with no items
C7_MalformedReported ==
    \A p \in Procs :
        (Done(p) /\ response[p].got /\ Unparseable(response[p].text)) =>
            /\ MalformedResponseError(outcome[p])
            /\ outcome[p].items = <<>>

C7_Witness ==
    \E p \in Procs :
        /\ Done(p)
        /\ response[p].got
        /\ response[p].text = Sorry
        /\ \A i \in 1..Len(response[p].text) : response[p].text[i] \notin {"{", "}"}
        /\ MalformedResponseError(outcome[p])

(***************************************************************************)
(* C9: a call invokes the backend at most once and ends with exactly one   *)
(* outcome, a complete result or one error; no response leads to a second  *)
(* invocation, and an error carries no items.                              *)
(***************************************************************************)
OutcomeKinds == {"return", "RuntimeError", "ValueError", "AttributeError", "BackendError"}

\* C9: at most one backend invocation per call, an outcome exactly when the
\* call is done, and no items with an error
C9_OneCallOneOutcome ==
    \A p \in Procs :
        /\ backend_calls[p] <= 1
        /\ response[p].got => backend_calls[p] = 1
        /\ Done(p) <=> outcome[p] # NoOutcome
        /\ Done(p) => outcome[p].kind \in OutcomeKinds
        /\ outcome[p].kind # "return" => outcome[p].items = <<>>

C9_Witness ==
    \E p \in Procs :
        /\ Done(p)
        /\ backend_calls[p] = 1
        /\ MalformedResponseError(outcome[p])

(***************************************************************************)
(* C10: in every interleaving of concurrent calls, each call's outcome is  *)
(* the one it has when run alone with the same inputs, configuration and   *)
(* backend response: no call writes what another reads.                    *)
(***************************************************************************)
AloneOutcome(key, t, n, resp) ==
    IF Missing(key) THEN Raise("RuntimeError", MsgMissingKey)
    ELSE IF NormalizeTranscriptInput(t) = <<>> THEN Raise("ValueError", MsgEmptyTranscript)
    ELSE IF ~resp.got THEN Raise("BackendError", "")
    ELSE Extract(resp.text, n).outcome

\* C10: each concurrent call's locals and outcome are those of the call run
\* alone
C10_CallsIndependent ==
    \A p \in Procs :
        /\ Done(p) =>
              outcome[p] = AloneOutcome(api_key, transcript[p], max_items[p], response[p])
        /\ pc[p] \in {"invoke", "await", "extract"} =>
              /\ transcript_text[p] = NormalizeTranscriptInput(transcript[p])
              /\ request[p] = BuildRequest(participants[p], max_items[p], transcript_text[p])
        /\ pc[p] \in {"idle", "check_key", "normalize", "invoke", "await"} =>
              ~response[p].got

C10_Witness ==
    \E p \in Procs, q \in Procs :
        /\ p # q
        /\ Done(p) /\ outcome[p].kind = "return" /\ Len(outcome[p].items) = 1
        /\ Done(q) /\ MalformedResponseError(outcome[q])

(***************************************************************************)
(* C4: for every valid JSON payload P, the parser applied to P wrapped in  *)
(* a code fence (opening fence, optionally a language tag, P, closing      *)
(* fence) returns the same value as the parser applied to P alone.         *)
(***************************************************************************)
SameAsAlone ==
    /\ parse_out.res.ok
    /\ ParseJsonOutput(parse_in.payload).ok
    /\ parse_out.res.val = ParseJsonOutput(parse_in.payload).val

\* C4 as stated, for any language tag, on fences written the usual way (the
\* tag and P each followed by a line break): the fenced text parses to the
\* value of P alone
C4_AnyTagFenceParsesAsPayload ==
    (/\ parse_out.done
     /\ parse_in.kind = "fence"
     /\ parse_in.lead = <<NL>> /\ parse_in.trail = <<NL>>)
        => SameAsAlone

IsObjectText(P) == JsonLoads(P).ok /\ JsonLoads(P).val.t = "object"

\* C4 as amended: the fenced text parses to the value of P alone when the
\* fence has no tag or the tag json in any letter case, and with any other
\* tag when P is a JSON object
C4_JsonFenceParsesAsPayload ==
    (/\ parse_out.done
     /\ parse_in.kind = "fence"
     /\ \/ Lower(parse_in.tag) \in {<<>>, JsonTag}
        \/ IsObjectText(parse_in.payload))
        => SameAsAlone

C4_Witness ==
    /\ parse_out.done
    /\ parse_in.kind = "fence"
    /\ parse_in.tag = <<"J", "S", "O", "N">>
    /\ parse_in.lead = <<"\n">>
    /\ JsonLoads(parse_in.payload).val.t = "array"
    /\ parse_out.res.tier = "strict"
    /\ SameAsAlone

(***************************************************************************)
(* C5: for every response text made of one valid JSON object P with prose  *)
(* before and/or after it, the strict parse fails first and the recovery   *)
(* pass (first "{" to last "}") yields the value of P alone; strict parse  *)
(* is tried before brace extraction.                                       *)
(***************************************************************************)
Recovered ==
    /\ parse_out.res.ok
    /\ parse_out.res.tier = "recovery"
    /\ parse_out.res.val = JsonLoads(parse_in.payload).val

\* prose made of words: no quote, no fence marker, and a letter in it
Letters == {"a", "b", "d", "e", "k", "n", "o", "r", "u", "x", "S"}
WordProse(s) ==
    \/ s = <<>>
    \/ /\ \E i \in 1..Len(s) : s[i] \in Letters
       /\ \A i \in 1..Len(s) : s[i] \notin {Quote, Backtick}

NoBrace(s) == \A i \in 1..Len(s) : s[i] \notin {"{", "}"}

Trimmed(s) ==
    LET solid == {i \in 1..Len(s) : s[i] \notin Whitespace}
    IN  IF solid = {} THEN <<>>
        ELSE SubSeq(s, CHOOSE i \in solid : \A j \in solid : i <= j,
                       CHOOSE i \in solid : \A j \in solid : j <= i)
FieldText(f) == IF f.has THEN Trimmed(f.s) ELSE <<>>
Kept(turns) == {i \in 1..Len(turns) : FieldText(turns[i].text) # <<>>}
KeptAt(turns, j) ==
    CHOOSE i \in Kept(turns) : Cardinality({k \in Kept(turns) : k <= i}) = j
LineOf(turn) ==
    (IF FieldText(turn.speaker) = <<>> THEN SpeakerDefault ELSE FieldText(turn.speaker))
        \o <<":", " ">> \o FieldText(turn.text)
ExpectedLines(turns) ==
    [j \in 1..Cardinality(Kept(turns)) |-> LineOf(turns[KeptAt(turns, j)])]

\* the lines of a text: str.splitlines on "\n"
RECURSIVE SplitLines(_, _, _)
SplitLines(s, cur, acc) ==
    IF s = <<>> THEN Append(acc, cur)
    ELSE IF Head(s) = NL THEN SplitLines(Tail(s), <<>>, Append(acc, cur))
    ELSE SplitLines(Tail(s), Append(cur, Head(s)), acc)
Lines(text) == IF text = <<>> THEN <<>> ELSE SplitLines(text, <<>>, <<>>)

\* C8 as stated: the lines of the output are exactly the lines of the turns
\* with non-blank text, in their order
C8_OneLinePerKeptTurn ==
    norm_out.done => Lines(norm_out.text) = ExpectedLines(norm_in)

NoLineBreak(turns) ==
    \A i \in Kept(turns) : \A j \in 1..Len(LineOf(turns[i])) : LineOf(turns[i])[j] # NL

\* C8 as amended: when no retained turn's trimmed speaker or text holds a
\* line break, the lines of the output are exactly the lines of the turns
\* with non-blank text, in their order
C8_OneLinePerKeptTurnNoBreaks ==
    (norm_out.done /\ NoLineBreak(norm_in)) =>
        Lines(norm_out.text) = ExpectedLines(norm_in)

C8_Witness ==
    /\ norm_out.done
    /\ Len(norm_in) = 2
    /\ NoLineBreak(norm_in)
    /\ Kept(norm_in) = {2}
    /\ ~norm_in[2].speaker.has
    /\ norm_in[1].text.has
    /\ norm_in[1].form # norm_in[2].form
    /\ Lines(norm_out.text) = ExpectedLines(norm_in)

====
